---- MODULE Spec2Model ----
(***************************************************************************)
(* A model of the k8sagent core: the monitoring-cycle driver               *)
(* (src/main.py, src/models/monitoring_agent.py), the notification         *)
(* dispatcher (src/tools/notification_tool.py) and the incident store      *)
(* (src/database/vector_store.py).                                         *)
(*                                                                         *)
(* The three components are checked under their own specifications         *)
(* (DriverSpec / DriverFairSpec, NotifySpec, StoreSpec); each leaves the   *)
(* variables of the other components unchanged.                            *)
(***************************************************************************)
EXTENDS Integers, Sequences, FiniteSets, TLC

VARIABLES
    \* ---- driver (main.py, monitoring_agent.py) ----
    args,           \* parse_args(): [interval, single_run]
    agent,          \* RAGK8sAgent: [constructed, monitoring_interval]
    pc,             \* where main() is
    engine,         \* what the last agent.run did: [kind, value]
    once,           \* how the last monitor_once call ended: [kind, value]
    loop,           \* monitor_loop: "idle" | "running" | "returned" | "raised"
    loopCause,      \* what made monitor_loop end: "none" | "interrupt" | "exception"
    exited,         \* the process has ended
    exitStatus,     \* its exit status, once exited
    ending,         \* how main ended: "none" | "return" | "exception" |
                    \* "interrupt"
    interrupted,    \* an interrupt signal was delivered while monitor_loop ran
    cycleFailed,    \* the engine raised in the current cycle
    notifiedCycle,  \* a notification was attempted since the current cycle began
    attempt,        \* how that attempt ended: "none" | "returned" | "raised" |
                    \* "interrupt"
    sleepSecs,      \* the argument of the time.sleep call in progress
    cycles,         \* monitoring cycles started so far (history, saturating)
    \* ---- notification dispatcher (notification_tool.py) ----
    settings,       \* the notification part of Settings
    client,         \* the global notification_client
    call,           \* the arguments of the last notify call, and what the
                    \* channels' services did during it
    outcome,        \* how the last notify call ended: "none" | "returned" | "raised"
    results,        \* the map the last notify call returned
    sent,           \* the payloads handed to the channels' clients in that call
    wrapper,        \* what the last send_notification call returned ("": none)
    \* ---- incident store (vector_store.py) ----
    collection,     \* the records of the ChromaDB collection, in insertion order
    lastAdd,        \* the number n of the ID "problem_<n>" the last add_problem
                    \* returned (0: no add yet)
    query,          \* the arguments of the last find_similar_problems call
    found,          \* what that call returned
    config,         \* the collection's name, embedding function and metric
    cleared,        \* clear_all calls in a row, since the last add or delete
    earlier,        \* the largest n of the IDs returned by the add_problem
                    \* calls before the last one (0: none)
    added,          \* the last add_problem call that returned, while its ID
                    \* has not been deleted and the store not been cleared
    listing,        \* what the last get_all_problems call returned
    ret,            \* how the last store operation ended for its caller
    streak,         \* add_problem calls that returned since the store was
                    \* empty, with no delete since then (-1: a delete)
    deleted,        \* the n of the ID "problem_<n>" passed to delete_problem,
                    \* when that was the last change of the store (0: not)
    usable,         \* the collection the store refers to exists in the index
    halfCleared     \* a clear_all has failed between its two steps, and the
                    \* store has not been constructed anew since

driverVars == <<args, agent, pc, engine, once, loop, loopCause, exited,
                exitStatus, ending, interrupted, cycleFailed, notifiedCycle,
                attempt,
                sleepSecs, cycles>>

notifyVars == <<settings, client, call, outcome, results, sent, wrapper>>

storeVars == <<collection, lastAdd, query, found, config, cleared, earlier,
               added, listing, ret, streak, deleted, usable, halfCleared>>

vars == <<driverVars, notifyVars, storeVars>>

nonDriverVars == <<notifyVars, storeVars>>

nonNotifyVars == <<driverVars, storeVars>>

nonStoreVars == <<driverVars, notifyVars>>

(***************************************************************************)
(* Bounds of the model.                                                    *)
(***************************************************************************)
MaxCycles == 3

\* The most records the collection holds, and the largest n_results asked for.
MaxRecords == 2

MaxResults == 3

(***************************************************************************)
(* Program constants.                                                      *)
(***************************************************************************)
DefaultInterval == 300

ErrorPrefix == "Error in monitoring cycle: "

\* --interval is any int: a negative one, zero, a positive one.
IntervalArgs == {0 - 1, 0, 2}

\* What the Reasoning Engine's run can do: return a final text, or raise an
\* Exception e (value is str(e)).
EngineTexts == {"cluster healthy", "restarted pod"}
EngineErrors == {"", "rate limit"}
EngineOutcomes ==
    [kind : {"text"}, value : EngineTexts] \cup
    [kind : {"exception"}, value : EngineErrors]

KeyboardInterrupt == [kind |-> "interrupt", value |-> ""]

NoOutcome == [kind |-> "none", value |-> ""]

(***************************************************************************)
(* RAGK8sAgent.__init__: monitoring_interval or settings.monitoring_interval*)
(***************************************************************************)
NoAgent == [constructed |-> FALSE, monitoring_interval |-> 0]

NewAgent(interval) ==
    [constructed |-> TRUE,
     monitoring_interval |-> IF interval # 0 THEN interval ELSE DefaultInterval]

(***************************************************************************)
(* RAGK8sAgent.monitor_once: the outcome of the call, given what agent.run *)
(* did.  `except Exception` catches an Exception; a KeyboardInterrupt is   *)
(* not an Exception and passes through.                                    *)
(***************************************************************************)
MonitorOnceReraises(run) ==
    CASE run.kind = "text" -> [kind |-> "returned", value |-> run.value]
      [] run.kind = "exception" -> [kind |-> "raised", value |-> run.value]
      [] OTHER -> [kind |-> "interrupted", value |-> ""]

MonitorOnce(run) ==
    CASE run.kind = "text" -> [kind |-> "returned", value |-> run.value]
      [] run.kind = "exception" ->
            [kind |-> "returned", value |-> ErrorPrefix \o run.value]
      [] OTHER -> [kind |-> "interrupted", value |-> ""]

\* time.sleep(secs) raises ValueError for a negative argument.
SleepRaises(secs) == secs < 0

StartsWith(s, prefix) ==
    Len(s) >= Len(prefix) /\ SubSeq(s, 1, Len(prefix)) = prefix

Bump(n) == IF n < MaxCycles THEN n + 1 ELSE n

(***************************************************************************)
(* main(): how the process ends.                                           *)
(***************************************************************************)
\* A main whose process always ends with status 0.
MainEndsQuietly(how) ==
    /\ exited' = TRUE
    /\ exitStatus' = 0
    /\ ending' = how
    /\ pc' = "done"

\* main returns normally (status 0), or sys.exit(0) on KeyboardInterrupt,
\* or sys.exit(1) on any other Exception.
MainEnds(how) ==
    /\ exited' = TRUE
    /\ exitStatus' = IF how = "exception" THEN 1 ELSE 0
    /\ ending' = how
    /\ pc' = "done"

DriverInit ==
    /\ args \in [interval : IntervalArgs, single_run : BOOLEAN]
    /\ agent = NoAgent
    /\ pc = "main"
    /\ engine = NoOutcome
    /\ once = NoOutcome
    /\ loop = "idle"
    /\ loopCause = "none"
    /\ exited = FALSE
    /\ exitStatus = 0
    /\ ending = "none"
    /\ interrupted = FALSE
    /\ cycleFailed = FALSE
    /\ notifiedCycle = FALSE
    /\ attempt = "none"
    /\ sleepSecs = 0
    /\ cycles = 0

(***************************************************************************)
(* main, lines 67-90: construct the agent, then run once or loop.          *)
(***************************************************************************)
Construct ==
    /\ UNCHANGED nonDriverVars
    /\ pc = "main"
    /\ agent' = NewAgent(args.interval)
    /\ pc' = IF args.single_run THEN "single" ELSE "top"
    /\ loop' = IF args.single_run THEN "idle" ELSE "running"
    /\ UNCHANGED <<args, engine, once, loopCause, exited, exitStatus, ending,
                   interrupted, cycleFailed, notifiedCycle, attempt, sleepSecs, cycles>>

\* The constructor raises (cluster API unreachable, engine cannot be built),
\* or an interrupt arrives during construction.
ConstructFails ==
    /\ UNCHANGED nonDriverVars
    /\ pc = "main"
    /\ \E how \in {"exception", "interrupt"} : MainEnds(how)
    /\ UNCHANGED <<args, agent, engine, once, loop, loopCause, interrupted,
                   cycleFailed, notifiedCycle, attempt, sleepSecs, cycles>>

\* --single-run: result = agent.monitor_once(); log it; main returns.
SingleRun ==
    /\ UNCHANGED nonDriverVars
    /\ pc = "single"
    /\ \E run \in EngineOutcomes \cup {KeyboardInterrupt} :
          /\ engine' = run
          /\ once' = MonitorOnce(run)
          /\ cycleFailed' = (run.kind = "exception")
          /\ MainEnds(CASE once'.kind = "raised" -> "exception"
                        [] once'.kind = "interrupted" -> "interrupt"
                        [] OTHER -> "return")
    /\ cycles' = Bump(cycles)
    /\ notifiedCycle' = FALSE
    /\ attempt' = "none"
    /\ UNCHANGED <<args, agent, loop, loopCause, interrupted, sleepSecs>>

(***************************************************************************)
(* monitor_loop, lines 146-172.                                            *)
(***************************************************************************)
\* while True: try: result = self.monitor_once() -- the call begins.
StartCycle ==
    /\ UNCHANGED nonDriverVars
    /\ pc = "top"
    /\ pc' = "cycle"
    /\ cycles' = Bump(cycles)
    /\ cycleFailed' = FALSE
    /\ notifiedCycle' = FALSE
    /\ attempt' = "none"
    /\ UNCHANGED <<args, agent, engine, once, loop, loopCause, exited,
                   exitStatus, ending, interrupted, sleepSecs>>

\* `break` on KeyboardInterrupt: monitor_loop returns, and so does main.
LoopBreaks ==
    /\ interrupted' = TRUE
    /\ loop' = "returned"
    /\ loopCause' = "interrupt"
    /\ MainEnds("return")

\* An exception leaves monitor_loop: main's handlers end the process.
LoopRaises(how) ==
    /\ loop' = "raised"
    /\ loopCause' = how
    /\ MainEnds(how)

\* `except Exception`: log, then the notification call begins.
EnterHandler ==
    /\ pc' = "handler_notify"
    /\ UNCHANGED <<loop, loopCause, exited, exitStatus, ending, interrupted>>

\* A loop without containment: a failed cycle leaves monitor_loop.
FinishCycleStopsOnFailure ==
    /\ UNCHANGED nonDriverVars
    /\ pc = "cycle"
    /\ \E run \in EngineOutcomes :
          /\ engine' = run
          /\ once' = MonitorOnce(run)
          /\ cycleFailed' = (run.kind = "exception")
          /\ IF run.kind = "text"
                THEN /\ pc' = "sleep"
                     /\ sleepSecs' = agent.monitoring_interval
                     /\ UNCHANGED <<loop, loopCause, exited, exitStatus, ending,
                                    interrupted>>
                ELSE /\ LoopRaises("exception")
                     /\ UNCHANGED <<sleepSecs, interrupted>>
    /\ UNCHANGED <<args, agent, notifiedCycle, attempt, cycles>>

\* A loop that backs off: the sleep after a failed cycle is twice as long.
FinishCycleBacksOff ==
    /\ UNCHANGED nonDriverVars
    /\ pc = "cycle"
    /\ \E run \in EngineOutcomes :
          /\ engine' = run
          /\ once' = MonitorOnce(run)
          /\ cycleFailed' = (run.kind = "exception")
          /\ pc' = "sleep"
          /\ sleepSecs' = IF run.kind = "exception"
                             THEN 2 * agent.monitoring_interval
                             ELSE agent.monitoring_interval
    /\ UNCHANGED <<args, agent, notifiedCycle, attempt, cycles, loop,
                   loopCause, exited, exitStatus, ending, interrupted>>

\* agent.run ends (returns or raises an Exception); monitor_once ends; on a
\* return the loop logs the result and calls time.sleep(monitoring_interval).
FinishCycle ==
    /\ UNCHANGED nonDriverVars
    /\ pc = "cycle"
    /\ \E run \in EngineOutcomes :
          /\ engine' = run
          /\ once' = MonitorOnce(run)
          /\ cycleFailed' = (run.kind = "exception")
          /\ IF once'.kind = "returned"
                THEN /\ pc' = "sleep"
                     /\ sleepSecs' = agent.monitoring_interval
                     /\ UNCHANGED <<loop, loopCause, exited, exitStatus, ending,
                                    interrupted>>
                ELSE /\ EnterHandler
                     /\ UNCHANGED sleepSecs
    /\ UNCHANGED <<args, agent, notifiedCycle, attempt, cycles>>

\* An interrupt signal arrives while agent.run is in progress.
InterruptCycle ==
    /\ UNCHANGED nonDriverVars
    /\ pc = "cycle"
    /\ engine' = KeyboardInterrupt
    /\ once' = MonitorOnce(KeyboardInterrupt)
    /\ IF once'.kind = "interrupted"
          THEN LoopBreaks
          ELSE /\ pc' = "sleep"
               /\ interrupted' = TRUE
               /\ UNCHANGED <<loop, loopCause, exited, exitStatus, ending>>
    /\ UNCHANGED <<args, agent, cycleFailed, notifiedCycle, attempt, sleepSecs, cycles>>

\* time.sleep (line 153) returns after the interval.
SleepExpires ==
    /\ UNCHANGED nonDriverVars
    /\ pc = "sleep"
    /\ ~SleepRaises(sleepSecs)
    /\ pc' = "top"
    /\ UNCHANGED <<args, agent, engine, once, loop, loopCause, exited,
                   exitStatus, ending, interrupted, cycleFailed, notifiedCycle, attempt,
                   sleepSecs, cycles>>

\* time.sleep (line 153) raises ValueError: caught by `except Exception`.
SleepFails ==
    /\ UNCHANGED nonDriverVars
    /\ pc = "sleep"
    /\ SleepRaises(sleepSecs)
    /\ EnterHandler
    /\ UNCHANGED <<args, agent, engine, once, cycleFailed, notifiedCycle, attempt,
                   sleepSecs, cycles>>

\* An interrupt signal arrives during time.sleep (line 153).
InterruptSleep ==
    /\ UNCHANGED nonDriverVars
    /\ pc = "sleep"
    /\ ~SleepRaises(sleepSecs)
    /\ LoopBreaks
    /\ UNCHANGED <<args, agent, engine, once, cycleFailed, notifiedCycle, attempt,
                   sleepSecs, cycles>>

\* Lines 162-172: notification_tools[0](...) returns, raises, or is
\* interrupted; the bare `except: pass` swallows all three; then
\* time.sleep(monitoring_interval) is called.
HandlerNotify ==
    /\ UNCHANGED nonDriverVars
    /\ pc = "handler_notify"
    /\ \E how \in {"returned", "raised", "interrupt"} :
          /\ interrupted' = (interrupted \/ how = "interrupt")
          /\ attempt' = how
    /\ notifiedCycle' = TRUE
    /\ pc' = "handler_sleep"
    /\ sleepSecs' = agent.monitoring_interval
    /\ UNCHANGED <<args, agent, engine, once, loop, loopCause, exited,
                   exitStatus, ending, cycleFailed, cycles>>

\* time.sleep (line 172) ends.  Nothing inside monitor_loop catches what it
\* raises: a ValueError reaches main, which logs "Fatal error" and exits with
\* status 1; a KeyboardInterrupt reaches main, which exits with status 0.
\* Otherwise the loop goes back to its top.
HandlerSleep ==
    /\ UNCHANGED nonDriverVars
    /\ pc = "handler_sleep"
    /\ IF SleepRaises(sleepSecs)
          THEN /\ LoopRaises("exception")
               /\ UNCHANGED interrupted
          ELSE \E how \in {"expired", "interrupt"} :
                  IF how = "interrupt"
                     THEN /\ interrupted' = TRUE
                          /\ LoopRaises("interrupt")
                     ELSE /\ pc' = "top"
                          /\ UNCHANGED <<loop, loopCause, exited, exitStatus, ending,
                                         interrupted>>
    /\ UNCHANGED <<args, agent, engine, once, cycleFailed, notifiedCycle, attempt,
                   sleepSecs, cycles>>

(***************************************************************************)
(* The notification dispatcher, notification_tool.py.                      *)
(***************************************************************************)
ChannelNames == {"slack", "teams", "email"}

\* NOTIFICATION_CHANNELS is free text: it may name a channel that does not
\* exist.
AllNames == ChannelNames \cup {"pager"}

\* notify fills its map in this order (lines 237, 244, 251).
ChannelOrder == <<"slack", "teams", "email">>

Severities == {"info", "warning", "ERROR", "critical"}

Titles == {"", "Monitoring Error"}

\* str.lower and str.upper on the severities above.
Lower(s) == IF s = "ERROR" THEN "error" ELSE s

Upper(s) ==
    CASE s = "info" -> "INFO"
      [] s = "warning" -> "WARNING"
      [] s \in {"error", "ERROR"} -> "ERROR"
      [] OTHER -> "CRITICAL"

\* What a channel's service does with one delivery: Slack answers 200 or
\* another status, or its client raises; pymsteams and smtplib return or
\* raise.
Behaviours(c) ==
    IF c = "slack" THEN {"ok", "bad_status", "exception"}
                   ELSE {"ok", "exception"}

Nets == {n \in [ChannelNames -> {"ok", "bad_status", "exception"}] :
            \A c \in ChannelNames : n[c] \in Behaviours(c)}

\* NotificationClient.__init__ (lines 27-56): a channel gets a client only
\* if it is enabled and its credentials are set.
NotificationClient(channels, st) ==
    LET chs == IF channels # {} THEN channels ELSE st.notification_channels
    IN  [channels |-> chs,
         slack_client |-> ("slack" \in chs /\ st.slack_webhook_url),
         teams_client |-> ("teams" \in chs /\ st.teams_webhook_url),
         smtp_config |-> ("email" \in chs /\ st.smtp)]

Configured(cl, c) ==
    CASE c = "slack" -> cl.slack_client
      [] c = "teams" -> cl.teams_client
      [] c = "email" -> cl.smtp_config
      [] OTHER -> FALSE

\* A colour map without a default: an unknown severity gets no colour.
SlackColorNoDefault(severity) ==
    CASE Lower(severity) = "info" -> "#36a64f"
      [] Lower(severity) = "warning" -> "#ffd700"
      [] Lower(severity) = "error" -> "#ff0000"
      [] OTHER -> ""

\* Lines 81-85: the colour of the Slack attachment.
SlackColor(severity) ==
    CASE Lower(severity) = "info" -> "#36a64f"
      [] Lower(severity) = "warning" -> "#ffd700"
      [] Lower(severity) = "error" -> "#ff0000"
      [] OTHER -> "#36a64f"

\* Lines 152-156: the colour of the Teams card ("": none set).
TeamsColor(severity) ==
    IF Lower(severity) = "error" THEN "#ff0000"
    ELSE IF Lower(severity) = "warning" THEN "#ffd700" ELSE ""

\* Line 192 and line 254: the subject of the mail.
EmailSubject(title, severity) ==
    "[" \o Upper(severity) \o "] " \o
        (IF title # "" THEN title ELSE "Kubernetes Monitor Alert")

\* What one channel's send method hands to its client.
Payload(c, title, severity) ==
    CASE c = "slack" ->
            [channel |-> c, title |-> title, accent |-> SlackColor(severity)]
      [] c = "teams" ->
            [channel |-> c, title |-> title, accent |-> TeamsColor(severity)]
      [] OTHER ->
            [channel |-> c, title |-> EmailSubject(title, severity),
             accent |-> ""]

\* A send method whose try/except is missing: the client's exception
\* leaves it.
SendChannelUnguarded(cl, c, title, severity, net) ==
    IF ~Configured(cl, c)
       THEN [ret |-> FALSE, raised |-> FALSE, payloads |-> {}]
       ELSE [ret |-> (net[c] = "ok"),
             raised |-> (net[c] = "exception"),
             payloads |-> {Payload(c, title, severity)}]

\* A send method that takes any answer of the service for a success.
SendChannelIgnoresStatus(cl, c, title, severity, net) ==
    IF ~Configured(cl, c)
       THEN [ret |-> FALSE, raised |-> FALSE, payloads |-> {}]
       ELSE [ret |-> (net[c] # "exception"),
             raised |-> FALSE,
             payloads |-> {Payload(c, title, severity)}]

\* send_slack_notification (58-120), send_teams_notification (122-164),
\* send_email_notification (166-213): False without a client; otherwise the
\* payload is handed to the client, and the method returns True when the
\* delivery succeeded and False when the client raised (except Exception)
\* or Slack answered with a status other than 200.  Nothing is raised.
SendChannel(cl, c, title, severity, net) ==
    IF ~Configured(cl, c)
       THEN [ret |-> FALSE, raised |-> FALSE, payloads |-> {}]
       ELSE [ret |-> (net[c] = "ok"),
             raised |-> FALSE,
             payloads |-> {Payload(c, title, severity)}]

NoResults == [c \in {} |-> FALSE]

\* notify, lines 234-258: channels = channels or self.channels; then the
\* three `if "<name>" in channels` blocks in order, each storing what the
\* send method returned.  An exception leaving a send method would leave
\* notify at once, without a map.
RECURSIVE NotifyFrom(_, _, _, _, _, _, _)
NotifyFrom(i, acc, cl, chs, title, severity, net) ==
    IF i > Len(ChannelOrder) THEN acc
    ELSE LET c == ChannelOrder[i]
         IN  IF c \notin chs
                THEN NotifyFrom(i + 1, acc, cl, chs, title, severity, net)
                ELSE LET r == SendChannel(cl, c, title, severity, net)
                         next == [acc EXCEPT
                                    !.sent = acc.sent \cup r.payloads,
                                    !.results =
                                       [d \in DOMAIN acc.results \cup {c} |->
                                          IF d = c THEN r.ret
                                                   ELSE acc.results[d]]]
                     IN  IF r.raised
                            THEN [outcome |-> "raised",
                                  results |-> NoResults,
                                  sent |-> next.sent]
                            ELSE NotifyFrom(i + 1, next, cl, chs, title,
                                            severity, net)

\* A notify that selects every channel the client knows, whatever the
\* caller asked for.
NotifyIgnoresChannels(cl, channels, title, severity, net) ==
    NotifyFrom(1, [outcome |-> "returned", results |-> NoResults, sent |-> {}],
               cl, ChannelNames, title, severity, net)

Notify(cl, channels, title, severity, net) ==
    NotifyFrom(1, [outcome |-> "returned", results |-> NoResults, sent |-> {}],
               cl, IF channels # {} THEN channels ELSE cl.channels,
               title, severity, net)

\* ', '.join(names)
RECURSIVE Join(_)
Join(names) ==
    IF names = <<>> THEN ""
    ELSE IF Len(names) = 1 THEN names[1]
    ELSE names[1] \o ", " \o Join(Tail(names))

SuccessPrefix == "Notification sent successfully to: "

FailureMessage == "Failed to send notification to any channel"

\* A wrapper that lists every channel of the map, whatever its status.
SendNotificationTextAll(res) ==
    LET success_channels ==
            SelectSeq(ChannelOrder, LAMBDA c : c \in DOMAIN res)
    IN  IF success_channels # <<>>
           THEN SuccessPrefix \o Join(success_channels)
           ELSE FailureMessage

\* send_notification, lines 281-286: the channels of the map whose status is
\* true, in the map's order.
SendNotificationText(res) ==
    LET success_channels ==
            SelectSeq(ChannelOrder, LAMBDA c : c \in DOMAIN res /\ res[c])
    IN  IF success_channels # <<>>
           THEN SuccessPrefix \o Join(success_channels)
           ELSE FailureMessage

\* NOTIFICATION_CHANNELS after Settings.__init__: a non-empty list of names.
EnabledChoices ==
    (SUBSET ChannelNames \ {{}}) \cup {{"slack", "pager"}, {"pager"}}

NoCall == [title |-> "", severity |-> "info", channels |-> {},
           net |-> [c \in ChannelNames |-> "ok"]]

\* Settings() (settings.py 41-51, 69-79) and the module-level
\* notification_client = NotificationClient() (line 262).
NotifyInit ==
    /\ settings \in [notification_channels : EnabledChoices,
                     slack_webhook_url : BOOLEAN,
                     teams_webhook_url : BOOLEAN,
                     smtp : BOOLEAN]
    /\ client = NotificationClient({}, settings)
    /\ call = NoCall
    /\ outcome = "none"
    /\ results = NoResults
    /\ sent = {}
    /\ wrapper = ""

\* The dispatcher is not in use (the other components' specifications).
NotifyIdle ==
    /\ settings = [notification_channels |-> {"slack"},
                   slack_webhook_url |-> FALSE,
                   teams_webhook_url |-> FALSE,
                   smtp |-> FALSE]
    /\ client = NotificationClient({}, settings)
    /\ call = NoCall
    /\ outcome = "none"
    /\ results = NoResults
    /\ sent = {}
    /\ wrapper = ""

\* notification_client.notify(message, title, severity, channels).  notify
\* keeps no state between calls (the client is never modified), so one
\* dispatch is followed from each configuration.
NotifyCall ==
    /\ outcome = "none"
    /\ UNCHANGED nonNotifyVars
    /\ \E title \in Titles, severity \in Severities,
       channels \in SUBSET AllNames, net \in Nets :
        LET r == Notify(client, channels, title, severity, net)
        IN  /\ call' = [title |-> title, severity |-> severity,
                        channels |-> channels, net |-> net]
            /\ outcome' = r.outcome
            /\ results' = r.results
            /\ sent' = r.sent
            /\ wrapper' = ""
            /\ UNCHANGED <<settings, client>>

\* The tool send_notification(message, title, severity): notify on the
\* client's own channels, then the text.
SendNotification ==
    /\ outcome = "none"
    /\ UNCHANGED nonNotifyVars
    /\ \E title \in Titles, severity \in Severities, net \in Nets :
        LET r == Notify(client, {}, title, severity, net)
        IN  /\ call' = [title |-> title, severity |-> severity,
                        channels |-> {}, net |-> net]
            /\ outcome' = r.outcome
            /\ results' = r.results
            /\ sent' = r.sent
            /\ wrapper' = IF r.outcome = "returned"
                             THEN SendNotificationText(r.results)
                             ELSE ""
            /\ UNCHANGED <<settings, client>>

(***************************************************************************)
(* The incident store, vector_store.py.                                    *)
(***************************************************************************)
\* Queries.
Texts == {"pod crashloop", "pod crash", "node oom", "dns failure"}

\* The problem_description argument of add_problem: any str, the empty one
\* included.
Documents == {"pod crashloop", "node oom", ""}

\* The solution argument of add_problem: any str, the empty one included, or
\* None.
Solutions == {"restart pod", ""}

\* Python's None, where a str is expected.
None == "<None>"

SolutionArgs == Solutions \cup {None}

\* The metadata argument of add_problem: None, or a mapping that carries a
\* `solution` key of its own.
NoMetadata == [k \in {} |-> ""]

Metadatas == {NoMetadata, [k \in {"solution"} |-> "stale"]}

\* What the backing index and the embedding step do during one operation:
\* they work, or they fail.
Backends == {"ok", "fails"}

BackendError == "index unavailable"

\* similarity_threshold, in twentieths: 0, 0.3, 0.7 (the default), 0.75, 1.
Thresholds == {0, 6, 14, 15, 20}

\* The embedding function (lines 49-52): a text becomes a unit vector; the
\* texts above lie in one plane, 60 degrees apart.  Direction is the angle
\* in units of 60 degrees (the empty text lies at 180 degrees).
Direction(text) ==
    CASE text = "pod crashloop" -> 0
      [] text = "pod crash" -> 1
      [] text = "node oom" -> 2
      [] OTHER -> 3

\* Ten times the cosine of k * 60 degrees, k in 0..3.
Cosine(k) ==
    CASE k = 0 -> 10
      [] k = 1 -> 5
      [] k = 2 -> 0 - 5
      [] OTHER -> 0 - 10

Abs(x) == IF x < 0 THEN 0 - x ELSE x

\* The cosine distance ("hnsw:space": "cosine", line 58) of two texts'
\* embeddings, 1 - cos, in tenths: between 0 and 20.
Distance(a, b) == 10 - Cosine(Abs(Direction(a) - Direction(b)))

\* A conversion that halves the distance twice.
SimilarityHalved(distance) == 20 - distance \div 2

\* Line 147: similarity = 1 - (distance / 2).  distance is in tenths, the
\* similarity in twentieths.
Similarity(distance) == 20 - distance

\* A filter that keeps every candidate.
KeepsAll(similarity, similarity_threshold) == TRUE

\* A filter with the comparison turned round.
KeepsBelow(similarity, similarity_threshold) ==
    similarity <= similarity_threshold

\* Line 149: if similarity >= similarity_threshold.
Keeps(similarity, similarity_threshold) == similarity >= similarity_threshold

Min(a, b) == IF a < b THEN a ELSE b

\* A query that answers with the first n records, in insertion order.
NearestInInsertionOrder(coll, text, n, taken) ==
    [i \in 1..Min(n, Len(coll)) |-> i]

\* collection.query (lines 133-137): the positions of the n_results records
\* nearest to the query, nearest first (equal distances in insertion order);
\* fewer when the collection holds fewer.
RECURSIVE Nearest(_, _, _, _)
Nearest(coll, text, n, taken) ==
    LET left == (1..Len(coll)) \ {taken[i] : i \in 1..Len(taken)}
    IN  IF n = 0 \/ left = {} THEN taken
        ELSE LET best == CHOOSE i \in left : \A j \in left :
                            \/ Distance(text, coll[i].document)
                                  < Distance(text, coll[j].document)
                            \/ /\ Distance(text, coll[i].document)
                                     = Distance(text, coll[j].document)
                               /\ i <= j
             IN  Nearest(coll, text, n - 1, Append(taken, best))

\* metadata.pop("solution") (lines 152, 175): the metadata without that key.
Residual(metadata) ==
    [k \in DOMAIN metadata \ {"solution"} |-> metadata[k]]

\* Lines 140-155: one candidate of the query as a result record.
AsResult(text, rec) ==
    [problem |-> rec.document,
     solution |-> rec.metadata["solution"],
     similarity |-> Similarity(Distance(text, rec.document)),
     metadata |-> Residual(rec.metadata)]

\* VectorStore.find_similar_problems (lines 111-161): [] for an empty
\* collection; otherwise the candidates of the query, in the query's order,
\* that pass the threshold.
FindSimilarProblems(coll, text, n_results, similarity_threshold) ==
    IF Len(coll) = 0 THEN <<>>
    ELSE LET hits == Nearest(coll, text, n_results, <<>>)
             candidates == [i \in 1..Len(hits) |-> AsResult(text, coll[hits[i]])]
         IN  SelectSeq(candidates,
                       LAMBDA r : Keeps(r.similarity, similarity_threshold))

\* A merge in which a solution key of the caller's metadata wins.
MergedCallerWins(metadata, solution) ==
    [k \in DOMAIN metadata \cup {"solution"} |->
        IF k \in DOMAIN metadata THEN metadata[k] ELSE solution]

\* Lines 93-95: the metadata stored with the record.
Merged(metadata, solution) ==
    [k \in DOMAIN metadata \cup {"solution"} |->
        IF k = "solution" THEN solution ELSE metadata[k]]

Ids(coll) == {coll[i].id : i \in 1..Len(coll)}

NoQuery == [called |-> FALSE, query |-> "", n_results |-> 0,
            similarity_threshold |-> 0]

CollectionName == "k8s_problems"

EmbeddingModel == "all-MiniLM-L6-v2"

\* client.get_or_create_collection (lines 55-59).
GetOrCreateCollection(name, embedding_function) ==
    [name |-> name, embedding_function |-> embedding_function,
     space |-> "cosine"]

\* A re-creation that leaves the metric to the index's default.
CreateCollectionDefaultSpace(name, embedding_function) ==
    [name |-> name, embedding_function |-> embedding_function,
     space |-> "l2"]

\* client.create_collection (lines 202-206).
CreateCollection(name, embedding_function) ==
    [name |-> name, embedding_function |-> embedding_function,
     space |-> "cosine"]

NoAdd == [done |-> FALSE, id |-> 0, problem |-> "", solution |-> "",
          own |-> FALSE,
          before |-> 0, taken |-> FALSE, fresh |-> FALSE]

NoListing == [called |-> FALSE, entries |-> <<>>]

NoReturn == [op |-> "none", via |-> "none", backend |-> "ok",
             kind |-> "none", text |-> ""]

\* What a method of VectorStore hands to its caller: its value, or the
\* exception it re-raises (lines 107-109, 159-161, 185-187, 194-196, 208-210).
\* text is str(e).
MethodEnds(op, backend, error) ==
    [op |-> op, via |-> "method", backend |-> backend,
     kind |-> IF error = "" THEN "returned" ELSE "raised",
     text |-> error]

\* What a tool hands to the Reasoning Engine: always a str.
ToolEnds(op, backend, text) ==
    [op |-> op, via |-> "tool", backend |-> backend, kind |-> "returned",
     text |-> text]

\* VectorStore() (line 214): get_or_create_collection; the persisted
\* collection is empty on a first start.
StoreInit ==
    /\ collection = <<>>
    /\ lastAdd = 0
    /\ query = NoQuery
    /\ found = <<>>
    /\ config = GetOrCreateCollection(CollectionName, EmbeddingModel)
    /\ cleared = 0
    /\ earlier = 0
    /\ added = NoAdd
    /\ listing = NoListing
    /\ ret = NoReturn
    /\ streak = 0
    /\ deleted = 0
    /\ usable = TRUE
    /\ halfCleared = FALSE

StoreIdle == StoreInit

Max(a, b) == IF a > b THEN a ELSE b

\* str(n) for a one-digit n.
Digit(n) ==
    CASE n = 0 -> "0" [] n = 1 -> "1" [] n = 2 -> "2" [] n = 3 -> "3"
      [] n = 4 -> "4" [] n = 5 -> "5" [] n = 6 -> "6" [] n = 7 -> "7"
      [] n = 8 -> "8" [] OTHER -> "9"

\* Line 90: f"{id_prefix}_{count + 1}".
ProblemId(n) == "problem_" \o Digit(n)

\* f"{value}" for a str or None.
Str(value) == IF value = None THEN "None" ELSE value

\* f"{similarity:.2f}" for a similarity in twentieths.
TwoDecimals(similarity) ==
    LET hundredths == similarity * 5
    IN  Digit(hundredths \div 100) \o "." \o Digit((hundredths \div 10) % 10)
           \o Digit(hundredths % 10)

\* collection.add validates the metadata before anything is stored: a value
\* of None is refused with a ValueError.
NoneRejected == "Expected metadata value to be a str, int, float or bool"

\* What an operation on a collection that no longer exists raises.
CollectionGone == "Collection k8s_problems does not exist."

\* str(e) of the exception the index raises: it fails ("fails"), or the
\* collection has been destroyed ("gone").
Failure(backend) ==
    CASE backend = "fails" -> BackendError
      [] backend = "gone" -> CollectionGone
      [] OTHER -> ""

\* An add_problem that numbers its record after the largest stored ID.
AddProblemNextFree(coll, problem_description, solution, metadata, backend) ==
    LET top == IF coll = <<>> THEN 0
               ELSE CHOOSE n \in Ids(coll) : \A m \in Ids(coll) : m <= n
        rec == [id |-> top + 1,
                document |-> problem_description,
                metadata |-> Merged(metadata, solution)]
    IN  IF backend # "ok" \/ solution = None
           THEN [error |-> IF backend # "ok" THEN Failure(backend)
                           ELSE NoneRejected,
                 id |-> 0, collection |-> coll, taken |-> FALSE]
           ELSE [error |-> "", id |-> top + 1,
                 collection |-> Append(coll, rec), taken |-> FALSE]

\* VectorStore.add_problem (lines 87-109).  The ID is "problem_<count + 1>"
\* for the count of records at the time of the call (id is that number);
\* collection.add ignores a record whose ID the collection already holds.
\* error is str(e) of the exception the method re-raises ("": it returned).
AddProblemResult(coll, problem_description, solution, metadata, backend) ==
    LET problem_id == Len(coll) + 1
        rec == [id |-> problem_id,
                document |-> problem_description,
                metadata |-> Merged(metadata, solution)]
    IN  IF backend # "ok"
           THEN [error |-> Failure(backend), id |-> 0, collection |-> coll,
                 taken |-> FALSE]
        ELSE IF solution = None
           THEN [error |-> NoneRejected, id |-> 0, collection |-> coll,
                 taken |-> FALSE]
        ELSE [error |-> "", id |-> problem_id,
              collection |-> IF problem_id \in Ids(coll)
                                THEN coll
                                ELSE Append(coll, rec),
              taken |-> problem_id \in Ids(coll)]

\* The tool add_problem (lines 232-236).
AddProblemText(r) ==
    IF r.error = ""
       THEN "Successfully added problem with ID: " \o ProblemId(r.id)
       ELSE "Error adding problem: " \o r.error

\* VectorStore.get_all_problems (lines 163-183).
GetAllProblemsOf(coll) ==
    [i \in 1..Len(coll) |->
        [id |-> coll[i].id,
         problem |-> coll[i].document,
         solution |-> coll[i].metadata["solution"],
         metadata |-> Residual(coll[i].metadata)]]

\* The tool find_similar_problems (lines 253-269): the text for the
\* entries from the i-th on.
RECURSIVE Entries(_, _)
Entries(similar_problems, i) ==
    IF i > Len(similar_problems) THEN ""
    ELSE "Problem " \o Digit(i) \o " (Similarity: "
            \o TwoDecimals(similar_problems[i].similarity) \o "):\n"
            \o "Description: " \o similar_problems[i].problem \o "\n"
            \o "Solution: " \o Str(similar_problems[i].solution) \o "\n\n"
            \o Entries(similar_problems, i + 1)

FindSimilarProblemsText(similar_problems, error) ==
    IF error # "" THEN "Error finding similar problems: " \o error
    ELSE IF similar_problems = <<>> THEN "No similar problems found."
    ELSE "Found similar problems:\n\n" \o Entries(similar_problems, 1)

\* An operation that raised and changed nothing.
Refused ==
    /\ ret.kind = "raised"
    /\ ~(ret.op = "clear" /\ ret.backend = "fails" /\ halfCleared)

\* No read of the store since its last change.  A read leaves the store as
\* it is: a second read in a row returns what it would have returned as the
\* first, and whatever follows a read also follows the state before it.  So
\* one read is followed between two changes of the store, and the changes
\* are followed from the states without a read.
\* The same holds of an operation that raised and changed nothing.
Unread ==
    /\ ~query.called
    /\ ~listing.called
    /\ ret.op \notin {"find", "list"}
    /\ ~Refused

\* What the index does for a store in its present state: what it does by
\* itself, or an error for a collection that no longer exists.
Index(backend) == IF usable THEN backend ELSE "gone"

\* A delete_problem that removes the last record, whatever the ID.
DeleteFromDropsLast(coll, problem_id) ==
    IF coll = <<>> THEN coll ELSE SubSeq(coll, 1, Len(coll) - 1)

\* collection.delete(ids=[problem_id]) (line 192): the records without the
\* one that has the ID; an ID that no record has is ignored.
DeleteFrom(coll, problem_id) == SelectSeq(coll, LAMBDA r : r.id # problem_id)

\* What an add_problem call with result r leaves behind.  A call that
\* raised has changed nothing in the store.
AfterAdd(r, problem_description, solution, metadata) ==
    /\ collection' = r.collection
    /\ IF r.error = ""
          THEN /\ lastAdd' = r.id
               /\ earlier' = Max(earlier, lastAdd)
               /\ added' = [done |-> TRUE, id |-> r.id,
                            problem |-> problem_description,
                            solution |-> solution,
                            own |-> "solution" \in DOMAIN metadata,
                            before |-> Len(collection),
                            taken |-> r.taken, fresh |-> TRUE]
               /\ cleared' = 0
               /\ streak' = IF streak >= 0 THEN streak + 1 ELSE streak
               /\ deleted' = 0
          ELSE UNCHANGED <<lastAdd, earlier, added, cleared, streak, deleted>>
    /\ query' = NoQuery
    /\ found' = <<>>
    /\ listing' = NoListing
    /\ UNCHANGED <<config, usable, halfCleared>>

\* vector_store.add_problem(problem_description, solution, metadata).
AddProblem ==
    /\ UNCHANGED nonStoreVars
    /\ Unread
    /\ Len(collection) < MaxRecords
    /\ \E problem_description \in Documents, solution \in SolutionArgs,
          metadata \in Metadatas, backend \in Backends :
          LET r == AddProblemResult(collection, problem_description, solution,
                                    metadata, Index(backend))
          IN  /\ AfterAdd(r, problem_description, solution, metadata)
              /\ ret' = MethodEnds("add", Index(backend), r.error)

\* The tool add_problem(problem_description, solution, metadata).
AddProblemTool ==
    /\ UNCHANGED nonStoreVars
    /\ Unread
    /\ Len(collection) < MaxRecords
    /\ \E problem_description \in Documents, solution \in SolutionArgs,
          metadata \in Metadatas, backend \in Backends :
          LET r == AddProblemResult(collection, problem_description, solution,
                                    metadata, Index(backend))
          IN  /\ AfterAdd(r, problem_description, solution, metadata)
              /\ ret' = ToolEnds("add", Index(backend), AddProblemText(r))

\* An operation that the index fails, or whose collection no longer
\* exists: the method logs and re-raises, and nothing has changed.
MethodFails(op) ==
    /\ ret' = MethodEnds(op, Index("fails"), Failure(Index("fails")))
    /\ UNCHANGED <<collection, lastAdd, query, found, config, cleared,
                   earlier, added, listing, streak, deleted, usable,
                   halfCleared>>

\* VectorStore.delete_problem (lines 189-193).
DeleteProblem ==
    /\ UNCHANGED nonStoreVars
    /\ Unread
    /\ usable
    /\ \E problem_id \in 1..MaxRecords :
          /\ collection' = DeleteFrom(collection, problem_id)
          /\ added' = IF ~added.done \/ added.id = problem_id
                         THEN NoAdd
                         ELSE [added EXCEPT !.fresh = FALSE]
          /\ deleted' = problem_id
    /\ query' = NoQuery
    /\ found' = <<>>
    /\ listing' = NoListing
    /\ cleared' = 0
    /\ streak' = -1
    /\ ret' = MethodEnds("delete", "ok", "")
    /\ UNCHANGED <<lastAdd, earlier, config, usable, halfCleared>>

\* delete_problem while collection.delete raises (lines 194-196).
DeleteProblemFails ==
    /\ UNCHANGED nonStoreVars
    /\ Unread
    /\ MethodFails("delete")

\* VectorStore.clear_all (lines 198-207): delete_collection, then
\* create_collection with the same name, embedding function and metric.
ClearAll ==
    /\ UNCHANGED nonStoreVars
    /\ Unread
    /\ usable
    /\ collection' = <<>>
    /\ config' = CreateCollection(config.name, config.embedding_function)
    /\ cleared' = Min(cleared + 1, 2)
    /\ added' = NoAdd
    /\ query' = NoQuery
    /\ found' = <<>>
    /\ listing' = NoListing
    /\ streak' = 0
    /\ deleted' = 0
    /\ ret' = MethodEnds("clear", "ok", "")
    /\ UNCHANGED <<lastAdd, earlier, usable, halfCleared>>

\* A clear_all whose failed re-creation leaves the old collection in place.
ClearAllFailsAtomically ==
    /\ UNCHANGED nonStoreVars
    /\ Unread
    /\ usable
    /\ \E at \in {"destroy", "recreate"} :
          halfCleared' = (at = "recreate")
    /\ ret' = MethodEnds("clear", "fails", BackendError)
    /\ UNCHANGED <<collection, lastAdd, query, found, config, cleared,
                   earlier, added, listing, streak, deleted, usable>>

\* clear_all fails (lines 208-210: log and re-raise).  When delete_collection
\* raises - the index fails, or the collection no longer exists - nothing
\* has changed.  When create_collection raises, the collection has been
\* destroyed and self.collection still refers to it.
ClearAllFails ==
    /\ UNCHANGED nonStoreVars
    /\ Unread
    /\ \E at \in {"destroy", "recreate"} :
          IF at = "destroy" \/ ~usable
             THEN /\ ret' = MethodEnds("clear", Index("fails"),
                                       Failure(Index("fails")))
                  /\ cleared' = 0
                  /\ UNCHANGED <<collection, lastAdd, query, found, config,
                                 earlier, added, listing, streak, deleted,
                                 usable, halfCleared>>
             ELSE /\ collection' = <<>>
                  /\ usable' = FALSE
                  /\ halfCleared' = TRUE
                  /\ added' = NoAdd
                  /\ cleared' = 0
                  /\ streak' = 0
                  /\ deleted' = 0
                  /\ query' = NoQuery
                  /\ found' = <<>>
                  /\ listing' = NoListing
                  /\ ret' = MethodEnds("clear", "fails", BackendError)
                  /\ UNCHANGED <<lastAdd, earlier, config>>

\* VectorStore() is constructed anew (lines 39-63) - by hand, to recover a
\* store that has become unusable: get_or_create_collection creates the
\* collection that no longer exists.
NewVectorStore ==
    /\ UNCHANGED nonStoreVars
    /\ Unread
    /\ ~usable
    /\ usable' = TRUE
    /\ halfCleared' = FALSE
    /\ config' = GetOrCreateCollection(CollectionName, EmbeddingModel)
    /\ ret' = MethodEnds("init", "ok", "")
    /\ UNCHANGED <<collection, lastAdd, query, found, cleared, earlier, added,
                   listing, streak, deleted>>

\* One find_similar_problems call that the index answers: the query is
\* recorded, and what the method returned.
AfterFind(text, n_results, similarity_threshold) ==
    /\ query' = [called |-> TRUE, query |-> text,
                 n_results |-> n_results,
                 similarity_threshold |-> similarity_threshold]
    /\ found' = FindSimilarProblems(collection, text, n_results,
                                    similarity_threshold)
    /\ UNCHANGED <<collection, lastAdd, config, cleared, earlier, added,
                   listing, streak, deleted, usable, halfCleared>>

\* vector_store.find_similar_problems(query, n_results, similarity_threshold).
FindSimilar ==
    /\ UNCHANGED nonStoreVars
    /\ Unread
    /\ usable
    /\ \E text \in Texts, n_results \in 1..MaxResults,
          similarity_threshold \in Thresholds :
          AfterFind(text, n_results, similarity_threshold)
    /\ ret' = MethodEnds("find", "ok", "")

\* The same call while the index or the embedding step fails (lines
\* 159-161): the exception is logged and re-raised.
FindSimilarFails ==
    /\ UNCHANGED nonStoreVars
    /\ Unread
    /\ MethodFails("find")

\* The tool find_similar_problems(query, n_results, similarity_threshold),
\* with its default n_results and the thresholds an engine passes.
FindSimilarProblemsTool ==
    /\ UNCHANGED nonStoreVars
    /\ Unread
    /\ usable
    /\ \E text \in Texts, similarity_threshold \in {0, 14} :
          AfterFind(text, MaxResults, similarity_threshold)
    /\ ret' = ToolEnds("find", "ok", FindSimilarProblemsText(found', ""))

\* The tool while the index or the embedding step fails (lines 268-269).
FindSimilarProblemsToolFails ==
    /\ UNCHANGED nonStoreVars
    /\ Unread
    /\ ret' = ToolEnds("find", Index("fails"),
                       FindSimilarProblemsText(<<>>,
                                               Failure(Index("fails"))))
    /\ UNCHANGED <<collection, lastAdd, query, found, config, cleared,
                   earlier, added, listing, streak, deleted, usable,
                   halfCleared>>

\* vector_store.get_all_problems().
GetAllProblems ==
    /\ UNCHANGED nonStoreVars
    /\ Unread
    /\ usable
    /\ listing' = [called |-> TRUE, entries |-> GetAllProblemsOf(collection)]
    /\ ret' = MethodEnds("list", "ok", "")
    /\ UNCHANGED <<collection, lastAdd, query, found, config, cleared,
                   earlier, added, streak, deleted, usable, halfCleared>>

\* get_all_problems while the index fails (lines 185-187).
GetAllProblemsFails ==
    /\ UNCHANGED nonStoreVars
    /\ Unread
    /\ MethodFails("list")

(***************************************************************************)
(* Specifications.                                                         *)
(***************************************************************************)
DriverStep ==
    \/ Construct
    \/ SingleRun
    \/ StartCycle
    \/ FinishCycle
    \/ SleepExpires
    \/ SleepFails
    \/ HandlerNotify
    \/ HandlerSleep

DriverFault ==
    \/ ConstructFails
    \/ InterruptCycle
    \/ InterruptSleep

DriverNext == DriverStep \/ DriverFault

DriverStart == DriverInit /\ NotifyIdle /\ StoreIdle

DriverSpec == DriverStart /\ [][DriverNext]_vars

\* The process keeps executing: a step of the program that is enabled is
\* eventually taken.  Faults (interrupts) are not forced to happen.
DriverFairSpec == DriverSpec /\ WF_vars(DriverStep)

\* The driver is not in use (the other components' specifications).
DriverIdle ==
    /\ args = [interval |-> 0, single_run |-> TRUE]
    /\ agent = NoAgent
    /\ pc = "idle"
    /\ engine = NoOutcome
    /\ once = NoOutcome
    /\ loop = "idle"
    /\ loopCause = "none"
    /\ exited = FALSE
    /\ exitStatus = 0
    /\ ending = "none"
    /\ interrupted = FALSE
    /\ cycleFailed = FALSE
    /\ notifiedCycle = FALSE
    /\ attempt = "none"
    /\ sleepSecs = 0
    /\ cycles = 0

NotifyNext ==
    \/ NotifyCall
    \/ SendNotification

NotifyStart == NotifyInit /\ DriverIdle /\ StoreIdle

NotifySpec == NotifyStart /\ [][NotifyNext]_vars

StoreNext ==
    \/ AddProblem
    \/ AddProblemTool
    \/ DeleteProblem
    \/ DeleteProblemFails
    \/ ClearAll
    \/ ClearAllFails
    \/ NewVectorStore
    \/ FindSimilar
    \/ FindSimilarFails
    \/ FindSimilarProblemsTool
    \/ FindSimilarProblemsToolFails
    \/ GetAllProblems
    \/ GetAllProblemsFails

StoreStart == StoreInit /\ DriverIdle /\ NotifyIdle

StoreSpec == StoreStart /\ [][StoreNext]_vars

(***************************************************************************)
(* Claims about the monitoring-cycle driver.                               *)
(***************************************************************************)

\* C1 (as stated): monitor_once never raises to its caller, whatever
\* happens during the cycle.
C1_NeverRaises == once.kind \in {"none", "returned"}

\* C1 (amended): monitor_once returns the engine's text unchanged when the
\* engine returns; it returns ErrorPrefix followed by str(e) when the engine
\* raises an Exception e; the only thing that leaves monitor_once as a raise
\* is the KeyboardInterrupt of an interrupt signal delivered during the
\* cycle.
C1_ContainsExceptions ==
    /\ engine.kind = "text" =>
          once = [kind |-> "returned", value |-> engine.value]
    /\ engine.kind = "exception" =>
          /\ once.kind = "returned"
          /\ StartsWith(once.value, ErrorPrefix)
          /\ once.value = ErrorPrefix \o engine.value
    /\ once.kind \notin {"none", "returned"} =>
          /\ once.kind = "interrupted"
          /\ engine.kind = "interrupt"

C1_Witness ==
    /\ engine = [kind |-> "exception", value |-> "rate limit"]
    /\ once.kind = "returned"
    /\ loop = "running"

\* C2: in continuous mode, when the engine raised during the cycle, the loop
\* has attempted an error notification by the time it is in its interval
\* sleep, and it is still running.
C2_NotifiesOnEngineFailure ==
    (loop # "idle" /\ cycleFailed /\ pc \in {"sleep", "handler_sleep"}) =>
        (notifiedCycle /\ loop = "running")

\* C3: in continuous mode, with sleeps that return, a monitoring cycle in
\* progress reaches its interval sleep, and a cycle that has ended -
\* succeeded or failed - is followed by another cycle, unless an interrupt
\* signal is delivered.
C3_CycleFollowedByCycle ==
    /\ (pc = "cycle" /\ ~SleepRaises(agent.monitoring_interval))
          ~> (pc = "sleep" \/ interrupted)
    /\ \A failed \in BOOLEAN :
          (pc = "sleep" /\ cycleFailed = failed /\ ~SleepRaises(sleepSecs))
             ~> (pc = "cycle" \/ interrupted)

C3_Witness ==
    /\ pc = "cycle"
    /\ cycles >= 2
    /\ engine.kind = "exception"
    /\ once.kind = "returned"
    /\ ~interrupted
    /\ loop = "running"

\* C4: once monitor_loop has started it ends only in response to an
\* interrupt signal.
C4_LoopEndsOnlyOnInterrupt ==
    loop \in {"returned", "raised"} => loopCause = "interrupt"

(***************************************************************************)
(* Claims about the notification dispatcher.                               *)
(***************************************************************************)
\* The channels selected for the last dispatch, those of them that have a
\* client (delivery is attempted on these), and whether a channel's own
\* delivery succeeded.
Requested == IF call.channels # {} THEN call.channels ELSE client.channels

Attempted == {c \in ChannelNames \cap Requested : Configured(client, c)}

Delivered(c) == c \in Attempted /\ call.net[c] = "ok"

Contains(s, sub) ==
    \E i \in 1..(Len(s) - Len(sub) + 1) : SubSeq(s, i, i + Len(sub) - 1) = sub

\* C5: the outcome map of notify has an entry exactly for the channels that
\* are both requested and configured; a requested channel without
\* credentials has no entry.
C5_EntriesAreAttempted ==
    outcome = "returned" => DOMAIN results = Attempted

\* C6: notify returns (never raises), whatever the channels' services do;
\* on every requested and configured channel the payload is handed to the
\* channel's client, also when another channel's delivery failed, and a
\* failed delivery (exception or non-success answer) is recorded as false.
C6_NotifyContainsFailures ==
    outcome # "none" =>
        /\ outcome = "returned"
        /\ \A c \in Attempted :
              /\ \E p \in sent : p.channel = c
              /\ c \in DOMAIN results
              /\ call.net[c] # "ok" => results[c] = FALSE

C6_Witness ==
    /\ outcome = "returned"
    /\ Attempted = ChannelNames
    /\ call.net["slack"] = "exception"
    /\ call.net["teams"] = "exception"
    /\ results = [c \in ChannelNames |-> c = "email"]
    /\ \A c \in ChannelNames : \E p \in sent : p.channel = c

\* C7: the value of a channel in the map is true exactly when that
\* channel's own delivery succeeded; with two requested channels, both
\* configured, one failing and one succeeding, the map has exactly two
\* entries, one true and one false.
C7_EntryIsOwnDelivery ==
    outcome = "returned" =>
        /\ Attempted \subseteq DOMAIN results
        /\ \A c \in DOMAIN results : results[c] <=> Delivered(c)
        /\ (/\ Requested = Attempted
            /\ Cardinality(Attempted) = 2
            /\ \E c, d \in Attempted : call.net[c] = "ok" /\ call.net[d] # "ok")
           => /\ Cardinality(DOMAIN results) = 2
              /\ Cardinality({c \in DOMAIN results : results[c]}) = 1
              /\ Cardinality({c \in DOMAIN results : ~results[c]}) = 1

C7_Witness ==
    /\ outcome = "returned"
    /\ Requested = {"slack", "teams"}
    /\ Attempted = {"slack", "teams"}
    /\ call.net["slack"] = "bad_status"
    /\ call.net["teams"] = "ok"
    /\ results = [c \in {"slack", "teams"} |-> c = "teams"]

\* C8: the text send_notification returns names exactly the channels whose
\* entry in notify's map is true, and it is the failure message exactly
\* when no entry is true (also when the map is empty).
C8_WrapperNamesSuccesses ==
    wrapper # "" =>
        /\ \A c \in ChannelNames :
              Contains(wrapper, c) <=> (c \in DOMAIN results /\ results[c])
        /\ (wrapper = FailureMessage) <=>
              ~ \E c \in DOMAIN results : results[c]
        /\ wrapper # FailureMessage => StartsWith(wrapper, SuccessPrefix)

C8_Witness ==
    /\ wrapper = "Notification sent successfully to: slack, email"
    /\ DOMAIN results = ChannelNames
    /\ ~results["teams"]

(***************************************************************************)
(* Claims about the incident store.                                        *)
(***************************************************************************)
\* C9: every result of find_similar_problems has a similarity that is
\* 1 - distance/2 for the cosine distance between the query and the result's
\* problem, and that is at least the similarity_threshold of the call.
C9_ResultsReachThreshold ==
    query.called =>
        \A i \in 1..Len(found) :
           /\ found[i].similarity >= query.similarity_threshold
           /\ found[i].similarity
                 = 20 - Distance(query.query, found[i].problem)

\* A call that returned something and discarded a candidate of the query.
C9_Witness ==
    /\ query.called
    /\ Len(found) >= 1
    /\ Len(found) < Min(query.n_results, Len(collection))

\* C10: for the query, n_results and store contents of the last call, a
\* call with a higher threshold returns at most as many results as that
\* call did, and a call with a lower threshold at least as many.
C10_ThresholdMonotone ==
    query.called =>
        \A t \in Thresholds :
           LET other == FindSimilarProblems(collection, query.query,
                                            query.n_results, t)
           IN  /\ t >= query.similarity_threshold => Len(other) <= Len(found)
               /\ t <= query.similarity_threshold => Len(other) >= Len(found)

\* A call whose result shrinks, without becoming empty, under a higher
\* threshold.
C10_Witness ==
    /\ query.called
    /\ \E t \in Thresholds :
          /\ t > query.similarity_threshold
          /\ Len(FindSimilarProblems(collection, query.query,
                                     query.n_results, t)) < Len(found)
          /\ Len(FindSimilarProblems(collection, query.query,
                                     query.n_results, t)) >= 1

\* C11: a find_similar_problems call that the index answers returns the
\* empty sequence, and raises nothing, when the store holds no record and
\* when no stored record reaches the similarity threshold.
C11_EmptyWhenNothingMatches ==
    (/\ ret.op = "find"
     /\ ret.backend = "ok"
     /\ query.called
     /\ \A i \in 1..Len(collection) :
           20 - Distance(query.query, collection[i].document)
              < query.similarity_threshold)
    => (ret.kind = "returned" /\ found = <<>>)

\* A store with two records, none of which reaches the threshold of the
\* query, although the threshold is the default one or lower.
C11_Witness ==
    /\ ret = MethodEnds("find", "ok", "")
    /\ Len(collection) = 2
    /\ query.similarity_threshold \in {6, 14}
    /\ found = <<>>

\* True when some result of the last query has the solution and the best
\* similarity of any stored record.
RoundTrips ==
    \E i \in 1..Len(found) :
       /\ found[i].solution = added.solution
       /\ \A j \in 1..Len(collection) :
             found[i].similarity
                >= 20 - Distance(added.problem, collection[j].document)

\* C12: after add_problem(D, S) has returned, find_similar_problems(D, n,
\* t), for any n and any threshold t between 0 and 1, returns a result whose
\* solution is S and whose similarity is the largest over all stored records.
C12_RoundTrip ==
    (/\ added.done
     /\ ret = MethodEnds("find", "ok", "")
     /\ query.called
     /\ query.query = added.problem)
    => RoundTrips

\* C13: the number in the ID an add_problem call returns is greater than the
\* number in every ID returned by an earlier add_problem call, whatever
\* deletes and clear_all calls lie between them.
C13_IdsNeverReused ==
    (lastAdd # 0 /\ earlier # 0) => lastAdd > earlier

\* C14: no two stored records share an ID, and the ID add_problem returned
\* was not the ID of a record in the store at the time of the call.
C14_IdsUnique ==
    /\ \A i, j \in 1..Len(collection) :
          i # j => collection[i].id # collection[j].id
    /\ added.done => ~added.taken

\* True when the entries of a get_all_problems result hold the record of the
\* last add: its id, its problem and its solution.
Lists(entries) ==
    \E i \in 1..Len(entries) :
       /\ entries[i].id = added.id
       /\ entries[i].problem = added.problem
       /\ entries[i].solution = added.solution

\* C15: after add_problem(D, S, M) has returned an id, and until that record
\* is deleted or the store cleared: the store holds one record more than
\* before the call (as long as nothing else changed it), get_all_problems
\* has an entry with that id, problem D and solution S, and a
\* find_similar_problems call can return the record.
C15_AddIsVisible ==
    added.done =>
        /\ added.fresh => Len(collection) = added.before + 1
        /\ Lists(GetAllProblemsOf(collection))
        /\ listing.called => Lists(listing.entries)
        /\ LET similar == FindSimilarProblems(collection, added.problem,
                                              Len(collection), 0)
           IN  \E i \in 1..Len(similar) :
                  /\ similar[i].problem = added.problem
                  /\ similar[i].solution = added.solution

\* C16: every stored record has a non-empty problem description and a
\* solution that is neither empty nor None.
C16_RecordsAreComplete ==
    \A i \in 1..Len(collection) :
       /\ collection[i].document # ""
       /\ collection[i].metadata["solution"] \notin {"", None}

\* C17: when the index or the embedding step fails during an add or a
\* find, the caller of the operation - of the method, or of the tool the
\* Reasoning Engine invokes - gets an exception, not a return value.
C17_FailuresAreRaised ==
    (ret.op \in {"add", "find"} /\ ret.backend = "fails") =>
        ret.kind = "raised"

\* C18: after clear_all has returned - once, or again on the store it left
\* empty - the store holds no record and its collection has the name, the
\* embedding function and the cosine metric it had before.
C18_ClearAllResets ==
    cleared >= 1 =>
        /\ Len(collection) = 0
        /\ config = GetOrCreateCollection(CollectionName, EmbeddingModel)
        /\ ret.op = "clear" => ret.kind = "returned"
        /\ GetAllProblemsOf(collection) = <<>>

\* clear_all called twice in a row, after an add.
C18_Witness ==
    /\ cleared = 2
    /\ lastAdd # 0
    /\ ret = MethodEnds("clear", "ok", "")
    /\ collection = <<>>

KnownSeverities == {"info", "warning", "error"}

\* C20 (as stated): with a severity other than info, warning or error, every
\* channel is handed what it is handed for the severity info.
C20_UnknownIsInfo ==
    (outcome = "returned" /\ Lower(call.severity) \notin KnownSeverities) =>
        sent = Notify(client, call.channels, call.title, "info", call.net).sent

\* C20 (amended): with a severity other than info, warning or error, Slack
\* and Teams are handed what they are handed for the severity info; the
\* subject of the mail carries the severity itself, in upper case; and the
\* outcome map is the one of the severity info: no send fails for it.
C20_UnknownIsInfoButInSubject ==
    (outcome = "returned" /\ Lower(call.severity) \notin KnownSeverities) =>
        LET info == Notify(client, call.channels, call.title, "info",
                           call.net)
        IN  /\ results = info.results
            /\ {p \in sent : p.channel # "email"}
                  = {p \in info.sent : p.channel # "email"}
            /\ \A p \in sent :
                  p.channel = "email" =>
                     StartsWith(p.title, "[" \o Upper(call.severity) \o "] ")

C20_Witness ==
    /\ outcome = "returned"
    /\ call.severity = "critical"
    /\ Attempted = ChannelNames
    /\ results = [c \in ChannelNames |-> TRUE]

\* C22: whenever monitor_loop sleeps, after a failed cycle as after a
\* successful one, the sleep is for monitoring_interval seconds; a cycle
\* starts only at the top of the loop, and the top of the loop is reached
\* only from the start of monitor_loop or from a sleep that has ended, so
\* never while a cycle or a sleep is in progress.
C22_FixedSleepBetweenCycles ==
    /\ [](pc \in {"sleep", "handler_sleep"} =>
             sleepSecs = agent.monitoring_interval)
    /\ [][/\ (pc' = "cycle" /\ pc # "cycle") => pc = "top"
          /\ (pc' = "top" /\ pc # "top") =>
                pc \in {"main", "sleep", "handler_sleep"}
          /\ pc = "cycle" => pc' \in {"cycle", "sleep", "handler_notify",
                                      "done"}]_vars

\* The sleep after a failed cycle that was not the first cycle.
C22_Witness ==
    /\ pc = "sleep"
    /\ cycleFailed
    /\ cycles >= 2
    /\ sleepSecs = 2
    /\ agent.monitoring_interval = 2

\* C23: an interrupt signal delivered while monitor_loop runs - during a
\* cycle, during the interval sleep or during the error-notification
\* attempt - is honoured: no monitoring cycle is in progress after it, and
\* when monitor_loop has ended, it has ended because of the interrupt.
C23_InterruptIsHonoured ==
    (loop # "idle" /\ interrupted) =>
        /\ pc # "cycle"
        /\ pc \in {"top", "done"} => loopCause = "interrupt"

\* C24: when the error notification attempted by monitor_loop raises, the
\* loop neither returns nor raises: it goes on to the interval sleep and to
\* the next cycle.
C24_FailedNotificationKeepsLoop ==
    attempt = "raised" =>
        /\ loop = "running"
        /\ pc \in {"handler_sleep", "top", "cycle"}

C21_IdIsCountPlusOne ==
    /\ added.done => added.id = added.before + 1
    /\ (ret.op = "add" /\ ret.kind = "returned" /\ added.done
            /\ ret.via = "method") =>
          lastAdd = added.before + 1
    /\ (ret.op = "add" /\ ret.via = "tool" /\ added.done
            /\ ~StartsWith(ret.text, "Error")) =>
          ret.text = "Successfully added problem with ID: "
                         \o ProblemId(added.before + 1)
    /\ streak >= 1 =>
          /\ lastAdd = streak
          /\ Len(collection) = streak
          /\ \A i \in 1..Len(collection) : collection[i].id = i

\* Two adds in a row on an empty store, the second through the tool.
C21_Witness ==
    /\ streak = 2
    /\ ret.op = "add"
    /\ ret.via = "tool"
    /\ ret.text = "Successfully added problem with ID: problem_2"

\* C26: find_similar_problems returns at most n_results records, in order
\* of non-increasing similarity, and they are the candidates of the index
\* that reach the threshold, in the order the index ranked them.
C26_RankedAndBounded ==
    query.called =>
        /\ Len(found) <= query.n_results
        /\ \A i \in 1..Len(found) : \A j \in i..Len(found) :
              found[i].similarity >= found[j].similarity
        /\ found = SelectSeq(FindSimilarProblems(collection, query.query,
                                                 query.n_results, 0),
                             LAMBDA r : r.similarity
                                            >= query.similarity_threshold)

\* Two results of different similarity under a threshold, the nearer one
\* stored after the other.
C26_Witness ==
    /\ query.called
    /\ query.similarity_threshold > 0
    /\ Len(collection) = 2
    /\ Len(found) = 2
    /\ found[1].similarity > found[2].similarity
    /\ found[1].problem = collection[2].document
    /\ found[2].problem = collection[1].document

\* C27: a delete_problem that the index carries out returns without an
\* error; afterwards no record has the ID, every other record is in the
\* store as it was, in the same order, and when no record had the ID the
\* store holds what it held.
C27_DeleteRemovesOnlyThat ==
    [][(ret'.op = "delete" /\ ret'.backend = "ok") =>
          /\ ret'.kind = "returned"
          /\ deleted' \notin Ids(collection')
          /\ Ids(collection') = Ids(collection) \ {deleted'}
          /\ \A i \in 1..Len(collection) :
                collection[i].id # deleted' =>
                   \E j \in 1..Len(collection') :
                      /\ collection'[j] = collection[i]
                      /\ j = Cardinality({k \in 1..i :
                                             collection[k].id # deleted'})
          /\ Len(collection') =
                Cardinality({k \in 1..Len(collection) :
                                collection[k].id # deleted'})
          /\ deleted' \notin Ids(collection) => collection' = collection
      ]_vars

\* The record problem_1 has been deleted and problem_2 is still stored.
C27_Witness ==
    /\ ret = MethodEnds("delete", "ok", "")
    /\ deleted = 1
    /\ Len(collection) = 1
    /\ collection[1].id = 2

\* An ID that no record has was deleted from a store that holds a record.
C27_WitnessAbsent ==
    /\ ret = MethodEnds("delete", "ok", "")
    /\ deleted = 2
    /\ Len(collection) = 1
    /\ collection[1].id = 1

\* C28: when clear_all has failed after destroying the collection, the
\* error was raised to its caller, the store is unusable, and every
\* operation on it since then - add, find, list, delete, clear_all - has
\* failed; constructing the store anew makes it usable again, and nothing
\* else makes a store unusable.
C28_HalfClearedIsUnusable ==
    /\ halfCleared =>
          /\ ~usable
          /\ collection = <<>>
          /\ ret.op \in {"add", "find", "list", "delete", "clear"}
          /\ ret.backend \in {"fails", "gone"}
          /\ ret.backend = "fails" =>
                ret = MethodEnds("clear", "fails", BackendError)
          /\ ret.via = "method" => ret.kind = "raised"
          /\ ret.via = "tool" => StartsWith(ret.text, "Error ")
    /\ ~halfCleared => usable
    /\ ret.op = "init" =>
          /\ usable
          /\ collection = <<>>
          /\ config = GetOrCreateCollection(CollectionName, EmbeddingModel)

\* A store that held a record has been half cleared, and a later
\* find_similar_problems on it has raised.
C28_Witness ==
    /\ halfCleared
    /\ lastAdd # 0
    /\ ret = MethodEnds("find", "gone", CollectionGone)

\* C29: get_all_problems returns one entry per stored record, in which the
\* solution is a field of its own and the metadata has no solution key; the
\* entry of the record that the last add created carries that add's
\* solution argument, also when the caller's metadata had a solution key.
\* The same holds of every result of find_similar_problems.
C29_SolutionIsUnmerged ==
    /\ listing.called =>
          /\ Len(listing.entries) = Len(collection)
          /\ \A i \in 1..Len(collection) :
                /\ listing.entries[i].id = collection[i].id
                /\ listing.entries[i].problem = collection[i].document
                /\ "solution" \notin DOMAIN listing.entries[i].metadata
          /\ (added.done /\ ~added.taken) =>
                \E i \in 1..Len(listing.entries) :
                   /\ listing.entries[i].id = added.id
                   /\ listing.entries[i].problem = added.problem
                   /\ listing.entries[i].solution = added.solution
    /\ query.called =>
          /\ \A i \in 1..Len(found) :
                /\ "solution" \notin DOMAIN found[i].metadata
                /\ \E k \in 1..Len(collection) :
                      /\ found[i].problem = collection[k].document
                      /\ found[i].solution =
                            GetAllProblemsOf(collection)[k].solution
          /\ (added.done /\ ~added.taken /\ Len(collection) = 1) =>
                \A i \in 1..Len(found) :
                   /\ found[i].problem = added.problem
                   /\ found[i].solution = added.solution

\* The store is listed after an add whose metadata had its own solution key.
C29_Witness ==
    /\ listing.called
    /\ added.done
    /\ added.own
    /\ ~added.taken
    /\ added.solution = "restart pod"
    /\ Len(listing.entries) = 2
    /\ listing.entries[2].id = added.id

====
